---- MODULE Spec2Model ----
(***************************************************************************)
(* FluxPad web client: the dashboard route guard (checkAuth), logout and   *)
(* account deletion (web/src/app/dashboard/page.tsx), the landing page     *)
(* (web/src/app/page.tsx), the header dropdowns (Header component) and the *)
(* API endpoint table (web/src/lib/config.ts), as one state machine of a   *)
(* single browser tab talking to the API over the network.                 *)
(*                                                                         *)
(* The user acts by pointer: a click goes to the topmost rendered layer    *)
(* (modal z-50 over dropdown z-50 over overlay z-40 over the header), and  *)
(* a disabled button takes no click. Pages change by router.push / Link    *)
(* (the document and its pending callbacks live on) or by a document load  *)
(* (address bar, reload: pending fetches are aborted). Login and register  *)
(* pages are outside the model, so nothing writes a token.                 *)
(*                                                                         *)
(* One step is one synchronous run of JavaScript: a handler from its entry *)
(* to its first await, or the continuation of an await to the next await / *)
(* the end of the function (catch and finally blocks included).            *)
(***************************************************************************)
EXTENDS Naturals, Sequences, FiniteSets

VARIABLES
    page,                   \* route whose component is mounted
    nav,                    \* pending router.push target, or NoNav
    token,                  \* localStorage 'token'
    user,                   \* DashboardPage state
    isLoading,
    isDeleting,
    showDeleteConfirm,
    workspaceDropdownOpen,  \* Header state
    userDropdownOpen,
    inflight,               \* fetch calls whose promise has not settled
    accountExists,          \* API server: the user record is in the User Store
    meSent,                 \* current-user requests sent by the mounted dashboard view
    ev,                     \* what the last step did (its outputs)
    trail,                  \* pages mounted since the document was loaded, each
                            \* with the token in storage when it mounted
    loggedOut,              \* handleLogout has run since the document was loaded
    NEXT_PUBLIC_API_URL,    \* process.env of the build that serves the tab
    NODE_ENV

vars == <<page, nav, token, user, isLoading, isDeleting, showDeleteConfirm,
          workspaceDropdownOpen, userDropdownOpen, inflight, accountExists,
          meSent, ev, trail, loggedOut, NEXT_PUBLIC_API_URL, NODE_ENV>>

view == <<user, isLoading, isDeleting, showDeleteConfirm,
          workspaceDropdownOpen, userDropdownOpen>>

----------------------------------------------------------------------------
(* Bounds *)

MaxInflight == 3
MaxTrail == 6

----------------------------------------------------------------------------
(* Values *)

NoToken == "null"           \* localStorage.getItem('token') === null
GoodToken == "good"         \* an access token the API accepts
BadToken == "bad"           \* an expired / invalid access token
Tokens == {GoodToken, BadToken}

NoUser == "null"
Identity == "u1"            \* the identity /auth/me returns for GoodToken

NoNav == "none"
Blank == "blank"            \* a fresh tab, nothing mounted
Landing == "/"
Dashboard == "/dashboard"
Login == "/login"
Register == "/register"
Routes == {Landing, Dashboard, Login, Register}

Ok == "200"
Statuses == {Ok, "401", "404", "500", "neterr"}   \* neterr: fetch rejects

----------------------------------------------------------------------------
(* lib/config.ts *)

\* process.env.<NAME> of a variable that is not set
Unset == "undefined"

\* a value the deployment may give NEXT_PUBLIC_API_URL
CustomUrl == "https://api.example.com"

EnvUrls == {Unset, "", CustomUrl}

\* Next.js sets NODE_ENV to one of these
NodeEnvs == {"production", "development", "test"}

\* JavaScript truthiness of process.env.<NAME>: undefined and '' are falsy
Truthy(v) == v \notin {Unset, ""}

\* process.env.NEXT_PUBLIC_API_URL || 'http://localhost:8000'
API_BASE_URL ==
    IF Truthy(NEXT_PUBLIC_API_URL) THEN NEXT_PUBLIC_API_URL
    ELSE "http://localhost:8000"

PRODUCTION_API_URL == "https://fluxpad-api-production.up.railway.app"

\* lib/config.ts as it was before the production URL was added: the endpoints
\* are built on API_BASE_URL
RESOLVED_API_BASE_URL_legacy == API_BASE_URL

RESOLVED_API_BASE_URL ==
    IF NODE_ENV = "production" /\ ~Truthy(NEXT_PUBLIC_API_URL)
    THEN PRODUCTION_API_URL
    ELSE API_BASE_URL

\* the part of each template literal after ${RESOLVED_API_BASE_URL}
EndpointPath ==
    [k \in {"LOGIN", "REGISTER", "ME", "REFRESH", "PING"} |->
        CASE k = "LOGIN" -> "/auth/login"
          [] k = "REGISTER" -> "/auth/register"
          [] k = "ME" -> "/auth/me"
          [] k = "REFRESH" -> "/auth/refresh"
          [] k = "PING" -> "/ping"]

API_ENDPOINTS ==
    [k \in DOMAIN EndpointPath |-> RESOLVED_API_BASE_URL \o EndpointPath[k]]

\* API_ENDPOINTS.<key> as JavaScript evaluates it: a missing property is undefined
Endpoint(key) ==
    IF key \in DOMAIN API_ENDPOINTS THEN API_ENDPOINTS[key] ELSE "undefined"

----------------------------------------------------------------------------
(* The network and the API server *)

\* Statuses the current-user endpoint can answer with
ServerMe(auth, exists) ==
    IF auth = GoodToken
    THEN IF exists THEN {Ok} ELSE {"401", "404"}
    ELSE {"401"}

\* Outcomes of a fetch, by the URL it was sent to
Responses(req, exists) ==
    IF req.url = API_ENDPOINTS["ME"]
    THEN ServerMe(req.auth, exists) \cup {"500", "neterr"}
    ELSE Statuses

----------------------------------------------------------------------------
(* Helpers *)

Event(op, res, push, sent, alert) ==
    [op |-> op, res |-> res, push |-> push, sent |-> sent, alert |-> alert]

Request(key, method, tok) ==
    [key |-> key, url |-> Endpoint(key), method |-> method,
     auth |-> tok, live |-> TRUE, phase |-> "fetch"]

Remove(s, i) == [j \in 1..(Len(s) - 1) |-> IF j < i THEN s[j] ELSE s[j + 1]]

\* the callbacks of an unmounted component keep running; its setState calls do nothing
Unmounted(s) == [j \in 1..Len(s) |-> [s[j] EXCEPT !.live = FALSE]]

Deletes(s) == {j \in 1..Len(s) : s[j].key = "DELETE_ACCOUNT"}

ViewReset ==
    /\ user' = NoUser
    /\ isLoading' = TRUE
    /\ isDeleting' = FALSE
    /\ showDeleteConfirm' = FALSE
    /\ workspaceDropdownOpen' = FALSE
    /\ userDropdownOpen' = FALSE

TypeOK ==
    /\ page \in Routes \cup {Blank}
    /\ nav \in Routes \cup {NoNav}
    /\ token \in Tokens \cup {NoToken}
    /\ user \in {NoUser, Identity}
    /\ isLoading \in BOOLEAN
    /\ isDeleting \in BOOLEAN
    /\ showDeleteConfirm \in BOOLEAN
    /\ workspaceDropdownOpen \in BOOLEAN
    /\ userDropdownOpen \in BOOLEAN
    /\ Len(inflight) <= MaxInflight
    /\ accountExists \in BOOLEAN
    /\ meSent \in Nat
    /\ loggedOut \in BOOLEAN
    /\ NEXT_PUBLIC_API_URL \in EnvUrls
    /\ NODE_ENV \in NodeEnvs

Init ==
    /\ page = Blank
    /\ nav = NoNav
    /\ token \in Tokens \cup {NoToken}
    /\ user = NoUser
    /\ isLoading = TRUE
    /\ isDeleting = FALSE
    /\ showDeleteConfirm = FALSE
    /\ workspaceDropdownOpen = FALSE
    /\ userDropdownOpen = FALSE
    /\ inflight = <<>>
    /\ accountExists \in BOOLEAN
    /\ meSent = 0
    /\ ev = Event("init", "none", NoNav, "none", FALSE)
    /\ trail = <<>>
    /\ loggedOut = FALSE
    /\ NEXT_PUBLIC_API_URL \in EnvUrls
    /\ NODE_ENV \in NodeEnvs

----------------------------------------------------------------------------
(* Page mounts *)

\* checkAuth without its `if (!token)` early return
checkAuthStart_noTokenCheck(reqs, op) ==
    /\ Len(reqs) < MaxInflight
    /\ nav' = NoNav
    /\ inflight' = Append(reqs, Request("ME", "GET", token))
    /\ meSent' = 1
    /\ ev' = Event(op, "none", NoNav, "ME", FALSE)

\* DashboardPage's effect: checkAuth up to its first await
checkAuthStart(reqs, op) ==
    IF token = NoToken
    THEN /\ nav' = Login
         /\ inflight' = reqs
         /\ meSent' = 0
         /\ ev' = Event(op, "none", Login, "none", FALSE)
    ELSE /\ Len(reqs) < MaxInflight
         /\ nav' = NoNav
         /\ inflight' = Append(reqs, Request("ME", "GET", token))
         /\ meSent' = 1
         /\ ev' = Event(op, "none", NoNav, "ME", FALSE)

\* a Home effect that redirects without looking at the storage
HomeEffect_alwaysRedirects(reqs, op) ==
    /\ nav' = Dashboard
    /\ inflight' = reqs
    /\ meSent' = 0
    /\ ev' = Event(op, "none", Dashboard, "none", FALSE)

\* Home's effect
HomeEffect(reqs, op) ==
    /\ nav' = IF token # NoToken THEN Dashboard ELSE NoNav
    /\ inflight' = reqs
    /\ meSent' = 0
    /\ ev' = Event(op, "none", IF token # NoToken THEN Dashboard ELSE NoNav,
                   "none", FALSE)

\* a page of the application that is not part of this model (login, register)
OtherPage(reqs, op) ==
    /\ nav' = NoNav
    /\ inflight' = reqs
    /\ meSent' = 0
    /\ ev' = Event(op, "none", NoNav, "none", FALSE)

\* route p is rendered for the first time and its effects run once
Mount(p, reqs, op) ==
    /\ page' = p
    /\ ViewReset
    /\ UNCHANGED <<token, accountExists>>
    /\ IF p = Dashboard THEN checkAuthStart(reqs, op)
       ELSE IF p = Landing THEN HomeEffect(reqs, op)
       ELSE OtherPage(reqs, op)

\* the user opens or reloads a page in the address bar: the old document is
\* unloaded, its pending fetches are aborted and its callbacks never run
Visit(p) == Mount(p, <<>>, "visit")

\* a router.push completes: the old page unmounts, the new one mounts
NavComplete ==
    /\ nav # NoNav
    /\ IF nav = page
       THEN /\ nav' = NoNav
            /\ ev' = Event("navsame", "none", NoNav, "none", FALSE)
            /\ UNCHANGED <<page, token, view, inflight, accountExists, meSent>>
       ELSE Mount(nav, Unmounted(inflight), "navdone")

\* Home's <Link href=...> to /login and /register
ClickLink(href) ==
    /\ page = Landing
    /\ nav' = href
    /\ ev' = Event("link", "none", href, "none", FALSE)
    /\ UNCHANGED <<page, token, view, inflight, accountExists, meSent>>

----------------------------------------------------------------------------
(* checkAuth after its awaits *)

\* the catch block without localStorage.removeItem('token')
checkAuthCatch_keepsToken(i, op, res) ==
    /\ nav' = Login
    /\ isLoading' = IF inflight[i].live THEN FALSE ELSE isLoading
    /\ inflight' = Remove(inflight, i)
    /\ ev' = Event(op, res, Login, "none", FALSE)
    /\ UNCHANGED <<page, token, user, isDeleting, showDeleteConfirm,
                   workspaceDropdownOpen, userDropdownOpen, accountExists, meSent>>

\* a catch block that calls the endpoint again instead of giving up
checkAuthCatch_retries(i, op, res) ==
    /\ inflight' = Append(Remove(inflight, i), Request("ME", "GET", token))
    /\ meSent' = meSent + 1
    /\ ev' = Event(op, res, NoNav, "ME", FALSE)
    /\ UNCHANGED <<page, nav, token, view, accountExists>>

\* a catch block that sends the visitor back to the landing page, token kept
checkAuthCatch_toLanding(i, op, res) ==
    /\ nav' = Landing
    /\ isLoading' = IF inflight[i].live THEN FALSE ELSE isLoading
    /\ inflight' = Remove(inflight, i)
    /\ ev' = Event(op, res, Landing, "none", FALSE)
    /\ UNCHANGED <<page, token, user, isDeleting, showDeleteConfirm,
                   workspaceDropdownOpen, userDropdownOpen, accountExists, meSent>>

\* catch { removeItem; push('/login') } finally { setIsLoading(false) }
checkAuthCatch(i, op, res) ==
    /\ token' = NoToken
    /\ nav' = Login
    /\ isLoading' = IF inflight[i].live THEN FALSE ELSE isLoading
    /\ inflight' = Remove(inflight, i)
    /\ ev' = Event(op, res, Login, "none", FALSE)
    /\ UNCHANGED <<page, user, isDeleting, showDeleteConfirm,
                   workspaceDropdownOpen, userDropdownOpen, accountExists, meSent>>

\* checkAuth without `if (!response.ok) throw`: every answered request is parsed
checkAuthResponse_noOkCheck(i, s) ==
    /\ inflight[i].key = "ME"
    /\ inflight[i].phase = "fetch"
    /\ s \in Responses(inflight[i], accountExists)
    /\ IF s # "neterr"
       THEN /\ inflight' = [inflight EXCEPT ![i].phase = "json"]
            /\ ev' = Event("me_resp", s, NoNav, "none", FALSE)
            /\ UNCHANGED <<page, nav, token, view, accountExists, meSent>>
       ELSE checkAuthCatch(i, "me_resp", s)

\* await fetch(API_ENDPOINTS.ME, ...) settles with status s
checkAuthResponse(i, s) ==
    /\ inflight[i].key = "ME"
    /\ inflight[i].phase = "fetch"
    /\ s \in Responses(inflight[i], accountExists)
    /\ IF s = Ok
       THEN /\ inflight' = [inflight EXCEPT ![i].phase = "json"]
            /\ ev' = Event("me_resp", s, NoNav, "none", FALSE)
            /\ UNCHANGED <<page, nav, token, view, accountExists, meSent>>
       ELSE checkAuthCatch(i, "me_resp", s)

\* setIsLoading(false) written in the catch block instead of in finally
checkAuthJson_noFinally(i, parsed) ==
    /\ inflight[i].key = "ME"
    /\ inflight[i].phase = "json"
    /\ IF parsed
       THEN /\ user' = IF inflight[i].live THEN Identity ELSE user
            /\ inflight' = Remove(inflight, i)
            /\ ev' = Event("me_json", Ok, NoNav, "none", FALSE)
            /\ UNCHANGED <<page, nav, token, isLoading, isDeleting, showDeleteConfirm,
                           workspaceDropdownOpen, userDropdownOpen,
                           accountExists, meSent>>
       ELSE checkAuthCatch(i, "me_json", "badjson")

\* await response.json() settles: parsed = the body was JSON
checkAuthJson(i, parsed) ==
    /\ inflight[i].key = "ME"
    /\ inflight[i].phase = "json"
    /\ IF parsed
       THEN /\ user' = IF inflight[i].live THEN Identity ELSE user
            /\ isLoading' = IF inflight[i].live THEN FALSE ELSE isLoading
            /\ inflight' = Remove(inflight, i)
            /\ ev' = Event("me_json", Ok, NoNav, "none", FALSE)
            /\ UNCHANGED <<page, nav, token, isDeleting, showDeleteConfirm,
                           workspaceDropdownOpen, userDropdownOpen,
                           accountExists, meSent>>
       ELSE checkAuthCatch(i, "me_json", "badjson")

----------------------------------------------------------------------------
(* What is rendered, and what a click can reach *)

\* DashboardPage returns the spinner while isLoading, the shell otherwise
ShellRendered == page = Dashboard /\ ~isLoading

\* {showDeleteConfirm && <div className="fixed inset-0 ... z-50">}: covers the page
ModalShown == ShellRendered /\ showDeleteConfirm

\* {(workspaceDropdownOpen || userDropdownOpen) && <div className="fixed inset-0 z-40">}
OverlayShown == ShellRendered /\ (workspaceDropdownOpen \/ userDropdownOpen)

\* header buttons stacked above the overlay
HeaderButtonsReachable_aboveOverlay == ShellRendered /\ ~ModalShown

\* the two header buttons lie under the overlay and under the modal
HeaderButtonsReachable == ShellRendered /\ ~OverlayShown /\ ~ModalShown

\* the open user dropdown (z-50) lies over the overlay and under the modal
UserMenuReachable == ShellRendered /\ userDropdownOpen /\ ~ModalShown

OverlayReachable == OverlayShown /\ ~ModalShown

\* <button onClick={() => setShowDeleteConfirm(false)} disabled={isDeleting}>
CancelEnabled == ModalShown /\ ~isDeleting

\* <button onClick={handleDeleteAccount} disabled={isDeleting}>
ConfirmEnabled == ModalShown /\ ~isDeleting

----------------------------------------------------------------------------
(* Header *)

ToggleWorkspace ==
    /\ HeaderButtonsReachable
    /\ workspaceDropdownOpen' = ~workspaceDropdownOpen
    /\ ev' = Event("toggleWorkspace", "none", NoNav, "none", FALSE)
    /\ UNCHANGED <<page, nav, token, user, isLoading, isDeleting,
                   showDeleteConfirm, userDropdownOpen, inflight,
                   accountExists, meSent>>

ToggleUser ==
    /\ HeaderButtonsReachable
    /\ userDropdownOpen' = ~userDropdownOpen
    /\ ev' = Event("toggleUser", "none", NoNav, "none", FALSE)
    /\ UNCHANGED <<page, nav, token, user, isLoading, isDeleting,
                   showDeleteConfirm, workspaceDropdownOpen, inflight,
                   accountExists, meSent>>

ClickOverlay ==
    /\ OverlayReachable
    /\ workspaceDropdownOpen' = FALSE
    /\ userDropdownOpen' = FALSE
    /\ ev' = Event("overlay", "none", NoNav, "none", FALSE)
    /\ UNCHANGED <<page, nav, token, user, isLoading, isDeleting,
                   showDeleteConfirm, inflight, accountExists, meSent>>

----------------------------------------------------------------------------
(* Dashboard shell *)

\* a logout that also drops the cached identity
handleLogout_clearsUser ==
    /\ UserMenuReachable
    /\ token' = NoToken
    /\ nav' = Login
    /\ user' = NoUser
    /\ ev' = Event("logout", "none", Login, "none", FALSE)
    /\ UNCHANGED <<page, isLoading, isDeleting, showDeleteConfirm,
                   workspaceDropdownOpen, userDropdownOpen, inflight,
                   accountExists, meSent>>

\* a logout that only navigates
handleLogout_keepsToken ==
    /\ UserMenuReachable
    /\ nav' = Login
    /\ ev' = Event("logout", "none", Login, "none", FALSE)
    /\ UNCHANGED <<page, token, view, inflight, accountExists, meSent>>

\* Header's "Sign Out" item: onLogout
handleLogout ==
    /\ UserMenuReachable
    /\ token' = NoToken
    /\ nav' = Login
    /\ ev' = Event("logout", "none", Login, "none", FALSE)
    /\ UNCHANGED <<page, view, inflight, accountExists, meSent>>

\* Header's "Delete Account" item: onDeleteAccount={() => setShowDeleteConfirm(true)}
OpenDeleteConfirm ==
    /\ UserMenuReachable
    /\ showDeleteConfirm' = TRUE
    /\ ev' = Event("open", "none", NoNav, "none", FALSE)
    /\ UNCHANGED <<page, nav, token, user, isLoading, isDeleting,
                   workspaceDropdownOpen, userDropdownOpen, inflight,
                   accountExists, meSent>>

\* the dialog's Cancel button
CancelDelete ==
    /\ CancelEnabled
    /\ showDeleteConfirm' = FALSE
    /\ ev' = Event("cancel", "none", NoNav, "none", FALSE)
    /\ UNCHANGED <<page, nav, token, user, isLoading, isDeleting,
                   workspaceDropdownOpen, userDropdownOpen, inflight,
                   accountExists, meSent>>

\* a handleDeleteAccount that clears the session before the server has answered
handleDeleteAccount_purgesEarly ==
    /\ ConfirmEnabled
    /\ IF user = NoUser
       THEN /\ ev' = Event("confirm", "none", NoNav, "none", FALSE)
            /\ UNCHANGED <<isDeleting, inflight, token>>
       ELSE /\ Len(inflight) < MaxInflight
            /\ isDeleting' = TRUE
            /\ inflight' = Append(inflight, Request("DELETE_ACCOUNT", "DELETE", token))
            /\ token' = NoToken
            /\ ev' = Event("confirm", "none", NoNav, "DELETE_ACCOUNT", FALSE)
    /\ UNCHANGED <<page, nav, user, isLoading, showDeleteConfirm,
                   workspaceDropdownOpen, userDropdownOpen, accountExists, meSent>>

\* a handleDeleteAccount without setIsDeleting(true)
handleDeleteAccount_noInFlightFlag ==
    /\ ConfirmEnabled
    /\ IF user = NoUser
       THEN /\ ev' = Event("confirm", "none", NoNav, "none", FALSE)
            /\ UNCHANGED inflight
       ELSE /\ Len(inflight) < MaxInflight
            /\ inflight' = Append(inflight, Request("DELETE_ACCOUNT", "DELETE", token))
            /\ ev' = Event("confirm", "none", NoNav, "DELETE_ACCOUNT", FALSE)
    /\ UNCHANGED <<page, nav, token, user, isLoading, isDeleting, showDeleteConfirm,
                   workspaceDropdownOpen, userDropdownOpen, accountExists, meSent>>

\* a handleDeleteAccount without the "if (!user) return" guard
handleDeleteAccount_noUserCheck ==
    /\ ConfirmEnabled
    /\ Len(inflight) < MaxInflight
    /\ isDeleting' = TRUE
    /\ inflight' = Append(inflight, Request("DELETE_ACCOUNT", "DELETE", token))
    /\ ev' = Event("confirm", "none", NoNav, "DELETE_ACCOUNT", FALSE)
    /\ UNCHANGED <<page, nav, token, user, isLoading, showDeleteConfirm,
                   workspaceDropdownOpen, userDropdownOpen, accountExists, meSent>>

\* the dialog's confirm button: handleDeleteAccount up to its await
handleDeleteAccount ==
    /\ ConfirmEnabled
    /\ IF user = NoUser
       THEN /\ ev' = Event("confirm", "none", NoNav, "none", FALSE)
            /\ UNCHANGED <<isDeleting, inflight>>
       ELSE /\ Len(inflight) < MaxInflight
            /\ isDeleting' = TRUE
            /\ inflight' = Append(inflight, Request("DELETE_ACCOUNT", "DELETE", token))
            /\ ev' = Event("confirm", "none", NoNav, "DELETE_ACCOUNT", FALSE)
    /\ UNCHANGED <<page, nav, token, user, isLoading, showDeleteConfirm,
                   workspaceDropdownOpen, userDropdownOpen, accountExists, meSent>>

\* the state resets written at the end of try instead of in finally
handleDeleteResponse_noFinally(i, s) ==
    /\ inflight[i].key = "DELETE_ACCOUNT"
    /\ s \in Responses(inflight[i], accountExists)
    /\ IF s = Ok
       THEN /\ token' = NoToken
            /\ nav' = Landing
            /\ ev' = Event("del_resp", s, Landing, "none", FALSE)
            /\ isDeleting' = IF inflight[i].live THEN FALSE ELSE isDeleting
            /\ showDeleteConfirm' =
                   IF inflight[i].live THEN FALSE ELSE showDeleteConfirm
       ELSE /\ ev' = Event("del_resp", s, NoNav, "none", TRUE)
            /\ UNCHANGED <<token, nav, isDeleting, showDeleteConfirm>>
    /\ inflight' = Remove(inflight, i)
    /\ UNCHANGED <<page, user, isLoading, workspaceDropdownOpen,
                   userDropdownOpen, accountExists, meSent>>

\* a finally block without setShowDeleteConfirm(false)
handleDeleteResponse_keepsDialog(i, s) ==
    /\ inflight[i].key = "DELETE_ACCOUNT"
    /\ s \in Responses(inflight[i], accountExists)
    /\ IF s = Ok
       THEN /\ token' = NoToken
            /\ nav' = Landing
            /\ ev' = Event("del_resp", s, Landing, "none", FALSE)
       ELSE /\ ev' = Event("del_resp", s, NoNav, "none", TRUE)
            /\ UNCHANGED <<token, nav>>
    /\ isDeleting' = IF inflight[i].live THEN FALSE ELSE isDeleting
    /\ inflight' = Remove(inflight, i)
    /\ UNCHANGED <<page, user, isLoading, showDeleteConfirm, workspaceDropdownOpen,
                   userDropdownOpen, accountExists, meSent>>

\* a success path that navigates home without localStorage.removeItem('token')
handleDeleteResponse_keepsToken(i, s) ==
    /\ inflight[i].key = "DELETE_ACCOUNT"
    /\ s \in Responses(inflight[i], accountExists)
    /\ IF s = Ok
       THEN /\ nav' = Landing
            /\ ev' = Event("del_resp", s, Landing, "none", FALSE)
            /\ UNCHANGED token
       ELSE /\ ev' = Event("del_resp", s, NoNav, "none", TRUE)
            /\ UNCHANGED <<token, nav>>
    /\ isDeleting' = IF inflight[i].live THEN FALSE ELSE isDeleting
    /\ showDeleteConfirm' = IF inflight[i].live THEN FALSE ELSE showDeleteConfirm
    /\ inflight' = Remove(inflight, i)
    /\ UNCHANGED <<page, user, isLoading, workspaceDropdownOpen,
                   userDropdownOpen, accountExists, meSent>>

\* localStorage.removeItem('token') written in finally instead of in try
handleDeleteResponse_purgesAlways(i, s) ==
    /\ inflight[i].key = "DELETE_ACCOUNT"
    /\ s \in Responses(inflight[i], accountExists)
    /\ IF s = Ok
       THEN /\ nav' = Landing
            /\ ev' = Event("del_resp", s, Landing, "none", FALSE)
       ELSE /\ ev' = Event("del_resp", s, NoNav, "none", TRUE)
            /\ UNCHANGED nav
    /\ token' = NoToken
    /\ isDeleting' = IF inflight[i].live THEN FALSE ELSE isDeleting
    /\ showDeleteConfirm' = IF inflight[i].live THEN FALSE ELSE showDeleteConfirm
    /\ inflight' = Remove(inflight, i)
    /\ UNCHANGED <<page, user, isLoading, workspaceDropdownOpen,
                   userDropdownOpen, accountExists, meSent>>

\* handleDeleteAccount after await fetch(API_ENDPOINTS.DELETE_ACCOUNT, ...) settles
\* with status s: the rest of try, or catch, then finally
handleDeleteResponse(i, s) ==
    /\ inflight[i].key = "DELETE_ACCOUNT"
    /\ s \in Responses(inflight[i], accountExists)
    /\ IF s = Ok
       THEN /\ token' = NoToken
            /\ nav' = Landing
            /\ ev' = Event("del_resp", s, Landing, "none", FALSE)
       ELSE /\ ev' = Event("del_resp", s, NoNav, "none", TRUE)
            /\ UNCHANGED <<token, nav>>
    /\ isDeleting' = IF inflight[i].live THEN FALSE ELSE isDeleting
    /\ showDeleteConfirm' = IF inflight[i].live THEN FALSE ELSE showDeleteConfirm
    /\ inflight' = Remove(inflight, i)
    /\ UNCHANGED <<page, user, isLoading, workspaceDropdownOpen,
                   userDropdownOpen, accountExists, meSent>>

----------------------------------------------------------------------------
(* Environment *)

\* another session of the same user deletes the account on the API server
ExternalDelete ==
    /\ accountExists
    /\ accountExists' = FALSE
    /\ ev' = Event("extdel", "none", NoNav, "none", FALSE)
    /\ UNCHANGED <<page, nav, token, view, inflight, meSent>>

----------------------------------------------------------------------------

\* the history of the tab: a document load starts it anew, a completed
\* router navigation extends it, nothing else touches it; process.env is
\* inlined when the application is built and no step changes it
Navigated ==
    /\ ev'.op = "navdone" => Len(trail) < MaxTrail
    /\ trail' = IF ev'.op = "visit" THEN << <<page', token'>> >>
                ELSE IF ev'.op = "navdone" THEN Append(trail, <<page', token'>>)
                ELSE trail
    /\ loggedOut' = IF ev'.op = "visit" THEN FALSE
                    ELSE IF ev'.op = "logout" THEN TRUE
                    ELSE loggedOut
    /\ UNCHANGED <<NEXT_PUBLIC_API_URL, NODE_ENV>>

Next ==
    \/ (\E p \in {Landing, Dashboard} : Visit(p)) /\ Navigated
    \/ NavComplete /\ Navigated
    \/ (\E href \in {Login, Register} : ClickLink(href)) /\ Navigated
    \/ (\E i \in 1..Len(inflight), s \in Statuses : checkAuthResponse(i, s))
           /\ Navigated
    \/ (\E i \in 1..Len(inflight), parsed \in BOOLEAN : checkAuthJson(i, parsed))
           /\ Navigated
    \/ ToggleWorkspace /\ Navigated
    \/ ToggleUser /\ Navigated
    \/ ClickOverlay /\ Navigated
    \/ handleLogout /\ Navigated
    \/ OpenDeleteConfirm /\ Navigated
    \/ CancelDelete /\ Navigated
    \/ handleDeleteAccount /\ Navigated
    \/ (\E i \in 1..Len(inflight), s \in Statuses : handleDeleteResponse(i, s))
           /\ Navigated
    \/ ExternalDelete /\ Navigated

Spec == Init /\ [][Next]_vars

\* a pending fetch settles, and so does the response.json() after it
SettleFetch ==
    (\E i \in 1..Len(inflight), s \in Statuses : checkAuthResponse(i, s)) /\ Navigated

SettleJson ==
    (\E i \in 1..Len(inflight), parsed \in BOOLEAN : checkAuthJson(i, parsed))
        /\ Navigated

FairSpec == Spec /\ WF_vars(SettleFetch) /\ WF_vars(SettleJson)

----------------------------------------------------------------------------
(* Properties *)

\* the last step mounted the dashboard: a page load or a completed navigation
DashboardLoaded == page = Dashboard /\ ev.op \in {"visit", "navdone"}

MeFailed == ev.op \in {"me_resp", "me_json"} /\ ev.res # Ok

LiveRequests == {i \in 1..Len(inflight) : inflight[i].live}

\* C1: a dashboard load that finds no token in storage requests navigation to
\* /login and sends nothing: no current-user request, no request at all.
C1_NoTokenRedirects ==
    (DashboardLoaded /\ token = NoToken) =>
        /\ ev.push = Login
        /\ nav = Login
        /\ ev.sent = "none"
        /\ meSent = 0
        /\ LiveRequests = {}

C1_Witness == DashboardLoaded /\ token = NoToken /\ nav = Login

\* C2: whenever the current-user call of a dashboard load fails (non-OK status,
\* network error or unreadable body), the token is removed from storage,
\* navigation to /login is requested and no identity is cached.
C2_MeFailurePurges ==
    MeFailed =>
        /\ token = NoToken
        /\ ev.push = Login
        /\ nav = Login
        /\ user = NoUser

C2_Witness == MeFailed /\ ev.res = "401" /\ page = Dashboard /\ token = NoToken

\* C3: for every protected call (current-user and delete-account) a 401
\* response removes the token from storage and redirects to /login.
C3_Any401ClearsSession ==
    (ev.op \in {"me_resp", "del_resp"} /\ ev.res = "401") =>
        /\ token = NoToken
        /\ ev.push = Login

\* C4: a successful current-user call caches the returned identity, and a
\* cached identity is neither cleared nor replaced until the view unmounts.
C4_IdentityCached ==
    /\ []((ev.op = "me_json" /\ ev.res = Ok) => user = Identity)
    /\ [][(user # NoUser /\ ev'.op \notin {"visit", "navdone"}) => user' = user]_vars

C4_Witness ==
    /\ user = Identity
    /\ page = Dashboard
    /\ ev.op \in {"logout", "cancel", "del_resp"}

\* C5: the logout action, in whatever state it is invoked, removes the token
\* from storage, requests navigation to /login and sends no request.
C5_LogoutPurges ==
    [][ev'.op = "logout" =>
        /\ token' = NoToken
        /\ nav' = Login
        /\ ev'.push = Login
        /\ ev'.sent = "none"
        /\ inflight' = inflight]_vars

C5_Witness == ev.op = "logout" /\ token = NoToken /\ nav = Login /\ user = Identity

\* C6: a success response to the delete-account request removes the token and
\* requests navigation to '/'; sending the request leaves the token in
\* storage, so it is not removed before the response has arrived.
C6_DeleteSuccess ==
    [][/\ (ev'.op = "del_resp" /\ ev'.res = Ok) =>
              (token' = NoToken /\ nav' = Landing /\ ev'.push = Landing)
       /\ ev'.op = "confirm" => token' = token]_vars

C6_Witness ==
    /\ ev.op = "del_resp"
    /\ ev.res = Ok
    /\ page = Dashboard
    /\ user = Identity
    /\ token = NoToken
    /\ nav = Landing

\* C7: when the delete-account request fails for a reason other than 401, the
\* token is unchanged, no navigation is requested, an error is shown and
\* isDeleting is false again.
C7_DeleteFailureReverts ==
    [][(ev'.op = "del_resp" /\ ev'.res \notin {Ok, "401"}) =>
        /\ token' = token
        /\ nav' = nav
        /\ ev'.push = NoNav
        /\ ev'.alert
        /\ ~isDeleting']_vars

C7_Witness ==
    /\ ev.op = "del_resp"
    /\ ev.res \in {"404", "500", "neterr"}
    /\ page = Dashboard
    /\ user = Identity
    /\ token = GoodToken
    /\ ~isDeleting

\* C8: at most one delete-account request is outstanding at any time; while
\* one is in flight isDeleting is true and neither dialog button is enabled.
C8_OneDeleteInFlight ==
    /\ Cardinality(Deletes(inflight)) <= 1
    /\ (Deletes(inflight) \cap LiveRequests # {}) => isDeleting
    /\ isDeleting => (~ConfirmEnabled /\ ~CancelEnabled)

C8_Witness ==
    /\ Deletes(inflight) \cap LiveRequests # {}
    /\ isDeleting
    /\ ModalShown

\* C9: a delete-account request is sent only by a click on the confirm button
\* of the open dialog, the dialog is opened only by the Delete Account item,
\* Cancel closes it and sends nothing, and when an attempt settles the dialog
\* is closed.
C9_TwoStepDelete ==
    [][/\ ev'.sent = "DELETE_ACCOUNT" => (ev'.op = "confirm" /\ ModalShown)
       /\ (~showDeleteConfirm /\ showDeleteConfirm') => ev'.op = "open"
       /\ ev'.op = "cancel" =>
              (~showDeleteConfirm' /\ inflight' = inflight /\ ev'.sent = "none")
       /\ ev'.op = "del_resp" => ~showDeleteConfirm']_vars

C9_Witness ==
    /\ ev.op = "del_resp"
    /\ ev.res # Ok
    /\ page = Dashboard
    /\ user = Identity
    /\ ~showDeleteConfirm

\* C10: a dashboard load sends at most one current-user request, and a request
\* is sent only by a page load or by a click on the confirm button, never by
\* the handling of a response.
C10_NoRetry ==
    /\ meSent <= 1
    /\ Cardinality({i \in LiveRequests : inflight[i].key = "ME"}) <= 1
    /\ ev.sent # "none" => ev.op \in {"visit", "navdone", "confirm"}
    /\ ev.op \in {"me_resp", "me_json", "del_resp"} => ev.sent = "none"

C10_Witness == MeFailed /\ meSent = 1 /\ inflight = <<>>

\* the last step mounted the landing page
LandingLoaded == page = Landing /\ ev.op \in {"visit", "navdone"}

\* C11: a landing-page load with any token in storage, valid or not, requests
\* navigation to /dashboard; with no token it requests none. Either way it
\* sends no request and leaves the storage as it was.
C11_LandingFastPath ==
    [][LandingLoaded' =>
        /\ token' = token
        /\ ev'.sent = "none"
        /\ Len(inflight') <= Len(inflight)
        /\ \A i \in 1..Len(inflight') : ~inflight'[i].live
        /\ token # NoToken => (ev'.push = Dashboard /\ nav' = Dashboard)
        /\ token = NoToken => (ev'.push = NoNav /\ nav' = NoNav)]_vars

C11_Witness == LandingLoaded /\ token = BadToken /\ nav = Dashboard /\ inflight = <<>>

\* what the tab's history can be after a document load of the landing page with
\* an invalid token: the bounce landing -> dashboard -> login, or a prefix of
\* it, or the visitor's own click on a landing-page link
Bounce ==
    << <<Landing, BadToken>>, <<Dashboard, BadToken>>, <<Login, NoToken>> >>

BounceTrails ==
    {SubSeq(Bounce, 1, n) : n \in 1..3}
        \cup {<< <<Landing, BadToken>>, <<r, BadToken>> >> : r \in {Login, Register}}

\* C12: from a landing-page visit with an invalid token the redirects are one
\* bounce, landing -> dashboard -> login with the token purged on the way;
\* at /login nothing is pending, and with no token in storage no navigation
\* to the dashboard is ever pending: no redirect cycle.
C12_OneBounce ==
    /\ (trail # <<>> /\ trail[1] = <<Landing, BadToken>>) =>
           /\ trail \in BounceTrails
           /\ user = NoUser
           /\ trail = Bounce => (token = NoToken /\ nav = NoNav /\ inflight = <<>>)
    /\ token = NoToken => (nav # Dashboard /\ ev.push # Dashboard)

C12_Witness == trail = Bounce /\ page = Login /\ token = NoToken /\ nav = NoNav

\* the page mounted before the current one, in the same document
CameFrom(r) == Len(trail) >= 2 /\ trail[Len(trail) - 1][1] = r

\* C13: after a confirmed deletion has succeeded the token is gone and the
\* landing page the client is sent to requests no navigation; the token stays
\* absent, and every later dashboard load redirects to /login and sends nothing.
C13_ScenarioD ==
    /\ []((ev.op = "del_resp" /\ ev.res = Ok) => (token = NoToken /\ nav = Landing))
    /\ []((LandingLoaded /\ CameFrom(Dashboard)) =>
              (token = NoToken /\ nav = NoNav /\ ev.push = NoNav))
    /\ [][token = NoToken => token' = NoToken]_vars
    /\ []((DashboardLoaded /\ token = NoToken) =>
              (nav = Login /\ ev.sent = "none" /\ LiveRequests = {}))

C13_Witness ==
    /\ LandingLoaded
    /\ CameFrom(Dashboard)
    /\ trail[Len(trail) - 1][2] = GoodToken
    /\ token = NoToken
    /\ nav = NoNav
    /\ inflight = <<>>

\* C14: every protected request carries "Bearer <token>" with an access token
\* that was in storage when the request was made; none is sent with the
\* absent token (null).
C14_BearerTokenPresent ==
    \A i \in 1..Len(inflight) : inflight[i].auth \in Tokens

\* C15: the delete-account request is sent with method DELETE to an endpoint
\* that the client's API endpoint configuration defines.
C15_DeleteEndpointDefined ==
    \A i \in Deletes(inflight) :
        /\ inflight[i].method = "DELETE"
        /\ inflight[i].url \in {API_ENDPOINTS[k] : k \in DOMAIN API_ENDPOINTS}

\* an authentication failure: the API rejects the token, or no longer knows
\* its subject
AuthFailures == {"401", "404"}

\* C16: the token is destroyed only by logout, by an authentication-failure
\* response to a protected call, or by a successful account deletion; a
\* current-user call that fails otherwise (network error, 5xx) leaves it.
C16_TokenDestroyedOnlyBy ==
    [][(token # NoToken /\ token' = NoToken) =>
        \/ ev'.op = "logout"
        \/ ev'.op \in {"me_resp", "del_resp"} /\ ev'.res \in AuthFailures
        \/ ev'.op = "del_resp" /\ ev'.res = Ok]_vars

\* C17: once the account is deleted on the server, a session still holding a
\* previously valid token ends its dashboard load Unauthenticated whenever the
\* current-user lookup comes after the delete: the call fails, the token is
\* purged, /login is requested and no identity is cached.
C17_DeletionFinality ==
    [][(ev'.op = "me_resp" /\ ~accountExists) =>
        /\ ev'.res # Ok
        /\ token' = NoToken
        /\ nav' = Login
        /\ user' = NoUser
        /\ \A i \in 1..Len(inflight') : inflight'[i].key # "ME"]_vars

C17_Witness ==
    /\ ev.op = "me_resp"
    /\ ev.res \in AuthFailures
    /\ ~accountExists
    /\ page = Dashboard
    /\ trail # <<>>
    /\ trail[Len(trail)] = <<Dashboard, GoodToken>>
    /\ token = NoToken
    /\ nav = Login

\* C18: whenever the dashboard shell is rendered a user identity is cached; it
\* is never rendered for a visitor whose check failed or who had no token.
C18_ShellImpliesUser == ShellRendered => user # NoUser

\* the route guard's states, as the mounted dashboard shows them
Checking ==
    /\ page = Dashboard
    /\ isLoading
    /\ \E i \in LiveRequests : inflight[i].key = "ME"

Authenticated == user = Identity /\ token # NoToken /\ nav = NoNav

Unauthenticated == user = NoUser /\ token = NoToken /\ nav = Login

\* the last step was the end of checkAuth
CheckEnded == ev.op = "me_json" \/ MeFailed

\* C19: a dashboard load with a token leaves Checking once its request
\* settles (or the document is loaded anew); it ends Authenticated (identity
\* cached, token kept, no redirect) or else Unauthenticated (no identity,
\* token purged, /login requested), with isLoading false, and isLoading stays
\* false for as long as the view is mounted.
C19_CheckTerminates ==
    /\ [](CheckEnded =>
              /\ page = Dashboard
              /\ ~isLoading
              /\ IF ev.res = Ok THEN Authenticated ELSE Unauthenticated)
    /\ [][(page = Dashboard /\ ~isLoading /\ ev'.op \notin {"visit", "navdone"})
              => ~isLoading']_vars
    /\ (Checking ~> (~Checking \/ ev.op = "visit"))

C19_Witness == CheckEnded /\ ev.res = Ok /\ Authenticated /\ ~isLoading

\* C20: the dashboard and landing code never write a token: the token only
\* ever changes to absent, and only by logout, a failed current-user check or
\* a successful deletion; page loads, a successful check, the dialog, a failed
\* deletion and the header dropdowns leave it as it was.
C20_TokenFrame ==
    [][/\ token' \in {token, NoToken}
       /\ token' # token =>
              \/ ev'.op = "logout"
              \/ ev'.op \in {"me_resp", "me_json"} /\ ev'.res # Ok
              \/ ev'.op = "del_resp" /\ ev'.res = Ok
       /\ ev'.op \in {"visit", "navdone", "navsame", "link", "open", "cancel",
                      "confirm", "toggleWorkspace", "toggleUser", "overlay"}
              => token' = token]_vars

C20_Witness ==
    /\ ev.op \in {"open", "cancel", "toggleWorkspace", "overlay"}
    /\ page = Dashboard
    /\ user = Identity
    /\ token = GoodToken

\* C21: a delete-account request is sent only by a view that has a user
\* identity cached; confirming the deletion with user = null sends nothing,
\* requests no navigation, raises no alert and leaves isDeleting, the dialog,
\* the token and the pending navigation as they were.
C21_NoDeleteWithoutUser ==
    [][/\ ev'.sent = "DELETE_ACCOUNT" => user # NoUser
       /\ (ev'.op = "confirm" /\ user = NoUser) =>
              /\ ev'.sent = "none"
              /\ ev'.push = NoNav
              /\ ~ev'.alert
              /\ UNCHANGED <<page, nav, token, view, inflight, accountExists>>]_vars

C21_Witness ==
    /\ ev.op = "confirm"
    /\ ev.sent = "none"
    /\ user = NoUser
    /\ showDeleteConfirm
    /\ ~isDeleting
    /\ Deletes(inflight) = {}

\* a step that resumes an async function of the dashboard view after an await
Callback == {"me_resp", "me_json", "del_resp"}

\* C22: once handleLogout has requested the navigation to /login, no callback
\* of the dashboard view that completes later requests a navigation or raises
\* an alert: the answer to a delete-account request still in flight leaves
\* the pending navigation, and the /login page once mounted, alone.
C22_LogoutIsFinal ==
    [][(loggedOut /\ ev'.op \in Callback) =>
           /\ ev'.push = NoNav
           /\ ~ev'.alert
           /\ nav' = nav]_vars

\* C23: the header's overlay is rendered exactly when the workspace or the
\* user dropdown is open; a click on the overlay closes both; a dropdown is
\* toggled only while both are closed, so the two are never open together.
C23_OneDropdown ==
    /\ [](OverlayShown <=> (workspaceDropdownOpen \/ userDropdownOpen))
    /\ [](~(workspaceDropdownOpen /\ userDropdownOpen))
    /\ [][ev'.op = "overlay" =>
              /\ workspaceDropdownOpen \/ userDropdownOpen
              /\ ~workspaceDropdownOpen' /\ ~userDropdownOpen']_vars
    /\ [][ev'.op \in {"toggleWorkspace", "toggleUser"} =>
              /\ ~workspaceDropdownOpen /\ ~userDropdownOpen
              /\ workspaceDropdownOpen' # userDropdownOpen']_vars

C23_Witness ==
    /\ ev.op = "overlay"
    /\ ShellRendered
    /\ ~OverlayShown
    /\ ~workspaceDropdownOpen
    /\ ~userDropdownOpen

\* the base URL as the rule gives it, case by case
ExpectedBase ==
    IF NEXT_PUBLIC_API_URL \notin {Unset, ""}
    THEN NEXT_PUBLIC_API_URL
    ELSE IF NODE_ENV = "production"
         THEN "https://fluxpad-api-production.up.railway.app"
         ELSE "http://localhost:8000"

\* C24: every endpoint of API_ENDPOINTS, and every current-user request sent,
\* is built on one base: NEXT_PUBLIC_API_URL when it is set (to a non-empty
\* value), whatever NODE_ENV is; otherwise the production Railway URL if
\* NODE_ENV is 'production' and http://localhost:8000 if it is not.
C24_BaseUrl ==
    /\ \A k \in DOMAIN API_ENDPOINTS :
           API_ENDPOINTS[k] = ExpectedBase \o EndpointPath[k]
    /\ RESOLVED_API_BASE_URL = "https://fluxpad-api-production.up.railway.app" <=>
           (NODE_ENV = "production" /\ NEXT_PUBLIC_API_URL \in {Unset, ""})
    /\ \A i \in 1..Len(inflight) :
           inflight[i].key = "ME" => inflight[i].url = ExpectedBase \o "/auth/me"

C24_Witness ==
    /\ NODE_ENV = "production"
    /\ NEXT_PUBLIC_API_URL = Unset
    /\ ev.sent = "ME"
    /\ \E i \in 1..Len(inflight) :
           inflight[i].url = "https://fluxpad-api-production.up.railway.app/auth/me"

====
